---- MODULE Spec2Model ----
(***************************************************************************)
(* Statistics collector of the agent (agent/src/utils/stats.rs): the       *)
(* source registry, the minimum sampling interval, the start/stop          *)
(* lifecycle and the scheduling loop of Collector.                         *)
(*                                                                         *)
(* A Duration is an integer number of milliseconds; the collector stores   *)
(* the minimum interval and compares times in whole seconds (as_secs).     *)
(***************************************************************************)
EXTENDS Integers, Sequences, FiniteSets, TLC

VARIABLES
    requested,      \* the interval passed to Collector::with_min_interval
    min_interval,   \* Collector.min_interval (AtomicU64, seconds)
    ntp_diff,       \* Collector.ntp_diff (AtomicI64), seconds here
    ntpSets,        \* number of times the NTP offset has been changed
    clock,          \* system time in seconds
    hostname,       \* Collector.hostname
    sources,        \* Collector.sources: Vec<Source>
    pre_hooks,      \* Collector.pre_hooks: the registered hooks, in order
    running,        \* Collector.running.0: the running flag
    poisoned,       \* the running mutex is poisoned (a holder panicked)
    runLock,        \* the scheduling thread that holds the running guard, or 0
    notified,       \* Collector.running.1: threads with a pending Condvar notification
    thread,         \* Collector.thread: Option<JoinHandle>, 0 is None
    threads,        \* the spawned scheduling threads and their locals
    nextTid,        \* number of threads spawned so far
    starting,       \* start() calls that set the flag and have not spawned yet
    stopping,       \* notify_stop() calls that cleared the flag and have not taken the handle
    stops,          \* number of notify_stop() calls so far
    reg,            \* a register_countable call between its load of min_interval and its commit
    nextCid,        \* number of Countables handed to register_countable so far
    queue,          \* the outbound queue's contents
    queueClosed,    \* the outbound queue has been terminated
    stat,           \* history: per Countable, what the scheduling loop did with it
    ev,             \* history: the last operation and its outcome
    count,          \* AtomicTimeStats.count
    sum_ns,         \* AtomicTimeStats.sum_ns
    max_ns,         \* AtomicTimeStats.max_ns
    upd,            \* the callers of AtomicTimeStats::update and their position in it
    issued          \* history: the durations of the update calls issued so far

collectorVars ==
    <<requested, min_interval, ntp_diff, ntpSets, clock, hostname, sources, pre_hooks,
      running, poisoned, runLock, notified, thread, threads, nextTid, starting,
      stopping, stops, reg, nextCid, queue, queueClosed, stat, ev>>

accVars == <<count, sum_ns, max_ns, upd, issued>>

vars == <<collectorVars, accVars>>

-----------------------------------------------------------------------------
(* Bounds of the model *)

MaxHalfSecs == 4      \* durations offered as inputs: 500 ms .. MaxHalfSecs * 500 ms
MaxClock == 4         \* the system clock runs from StartClock to MaxClock
MaxRegs == 2          \* register_countable calls after construction
MaxThreads == 2       \* scheduling threads spawned over a run
MaxHooks == 2         \* pre-hooks registered
QueueCap == 1         \* capacity of the outbound queue in the model
MaxNtpSets == 1       \* changes of the NTP offset
MaxStops == 1         \* notify_stop() calls over a run

MaxCallers == 2       \* concurrent callers of AtomicTimeStats::update
MaxUpdates == 3       \* update calls issued over a run
MaxNanos == 2         \* durations passed to update: 0 ns .. MaxNanos ns

StartClock == 1        \* the system time, in seconds, at construction ...
LateClock == 3         \* ... of a collector constructed later

(* Program constants *)

TICK_CYCLE == 1000

Durations == {h * 500 : h \in 1..MaxHalfSecs}
NtpDiffs == {0 - 1, 0}
Hostnames == {"", "h1", "h2"}
Tids == 1..MaxThreads
Cids == 0..MaxRegs
Callers == 1..MaxCallers
Nanos == 0..MaxNanos

-----------------------------------------------------------------------------
(* Duration *)

as_secs(d) == d \div 1000
from_secs(s) == s * 1000

(* StatsOption *)

Tag(k, v) == [kind |-> "Tag", k |-> k, v |-> v]
Interval(d) == [kind |-> "Interval", d |-> d]

(* Module implementations offered to register_countable / deregister_countables *)

QueueStats == [name |-> "queue",
               tags |-> <<Tag("index", "0"), Tag("module", "0-stats-to-sender")>>,
               options |-> <<>>]

TagLists == { <<>>,
              <<Tag("index", "0")>>,
              <<Tag("index", "0"), Tag("index", "1")>> }

OptionLists == { <<>> } \cup { <<Interval(d)>> : d \in Durations }

HostTagLists == { <<>>,
                  <<Tag("host", "a")>>,
                  <<Tag("index", "0"), Tag("host", "a")>>,
                  <<Tag("host", "a"), Tag("index", "0")>>,
                  <<Tag("host", "a"), Tag("host", "b")>> }

IdentityModules == [name : {"m"}, tags : TagLists, options : {<<>>}]
HostModules == [name : {"m"}, tags : HostTagLists, options : {<<>>}]
IntervalModules == [name : {"m"}, tags : {<<>>}, options : OptionLists]
Modules == IdentityModules \cup IntervalModules

-----------------------------------------------------------------------------
(* Collector::with_min_interval: the value stored in min_interval *)

RoundMinInterval(interval) ==
    IF interval <= TICK_CYCLE
    THEN as_secs(TICK_CYCLE)
    ELSE ((as_secs(interval) + as_secs(TICK_CYCLE) - 1) \div as_secs(TICK_CYCLE))
            * as_secs(TICK_CYCLE)

(* rpc::get_timestamp(ntp_diff).as_secs() *)

get_timestamp(ntp) == clock + ntp

(* impl PartialEq for Source *)

SourceEq(s, o) == s.module = o.module /\ s.tags = o.tags

(* register_countable / deregister_countables: tags deduplicated by key *)

HasKey(tags, k) == \E i \in 1..Len(tags) : tags[i][1] = k

RECURSIVE DedupTags(_, _)
DedupTags(opts, acc) ==
    IF opts = <<>> THEN acc
    ELSE LET o == Head(opts) IN
         IF o.kind = "Tag" /\ ~HasKey(acc, o.k)
         THEN DedupTags(Tail(opts), Append(acc, <<o.k, o.v>>))
         ELSE DedupTags(Tail(opts), acc)

(* register_countable: the interval after the options, minNow being the
   value of min_interval the option guard loads *)

RECURSIVE ApplyOptions(_, _, _)
ApplyOptions(opts, interval, minNow) ==
    IF opts = <<>> THEN interval
    ELSE LET o == Head(opts) IN
         IF o.kind = "Interval" /\ as_secs(o.d) >= minNow
         THEN ApplyOptions(Tail(opts),
                  from_secs((as_secs(o.d) \div as_secs(TICK_CYCLE)) * as_secs(TICK_CYCLE)),
                  minNow)
         ELSE ApplyOptions(Tail(opts), interval, minNow)

(* register_countable: the division of line 285 is reached with a zero divisor *)

RegisterPanics(interval, minLoaded) ==
    as_secs(interval) > minLoaded /\ minLoaded = 0

InitialSkip_Zero(interval, minLoaded) == 0

InitialSkip(interval, minLoaded) ==
    IF as_secs(interval) > minLoaded
    THEN as_secs(interval) \div minLoaded
    ELSE 0

NewSource(m, cid, minLoaded, minNow) ==
    LET interval == ApplyOptions(m.options, from_secs(minLoaded), minNow) IN
    [module |-> m.name,
     interval |-> interval,
     countable |-> [id |-> cid, closed |-> FALSE],
     tags |-> DedupTags(m.tags, <<>>),
     skip |-> IF RegisterPanics(interval, minLoaded) THEN 0
              ELSE InitialSkip(interval, minLoaded)]

(* register_countable: the predicate of sources.retain *)

RegisterKeep_NoDedup(s, source) == ~s.countable.closed

RegisterKeep(s, source) ==
    LET closed == s.countable.closed
        equals == SourceEq(s, source)
    IN ~closed /\ ~equals

RegisterSources(srcs, source) ==
    Append(SelectSeq(srcs, LAMBDA s : RegisterKeep(s, source)), source)

(* deregister_countables: the negated predicate of sources.retain, line 319 *)

DeregisterMatch_Module(s, name, tags) == s.module = name

DeregisterMatch(s, name, tags) == s.module = name /\ s.tags = tags

(* deregister_countables *)

RECURSIVE DeregisterSources(_, _)
DeregisterSources(srcs, ms) ==
    IF ms = <<>> THEN srcs
    ELSE LET m == Head(ms)
             tags == DedupTags(m.tags, <<>>)
         IN DeregisterSources(
                SelectSeq(srcs, LAMBDA s : ~DeregisterMatch(s, m.name, tags)),
                Tail(ms))

CidsOf(srcs) == {srcs[i].countable.id : i \in 1..Len(srcs)}

-----------------------------------------------------------------------------
(* The outbound queue (public::queue): send is non-blocking and fails when
   the queue is full or terminated *)

TrySend(q, closed, b) ==
    IF closed \/ Len(q) >= QueueCap
    THEN [ok |-> FALSE, q |-> q]
    ELSE [ok |-> TRUE, q |-> Append(q, b)]

-----------------------------------------------------------------------------
(* Batch::to_stats: the tag arrays of the wire record *)

IsHost_Never(name) == FALSE

IsHost(name) == name = "host"

(* lines 89-95, the tags from position i on *)

RECURSIVE PushTags(_, _, _)
PushTags(tags, i, acc) ==
    IF i > Len(tags) THEN acc
    ELSE PushTags(tags, i + 1,
             [has_host |-> IF IsHost(tags[i][1]) THEN TRUE ELSE acc.has_host,
              tag_names |-> Append(acc.tag_names, tags[i][1]),
              tag_values |-> Append(acc.tag_values, tags[i][2])])

to_stats(b) ==
    LET pushed == PushTags(b.tags, 1,
                      [has_host |-> FALSE, tag_names |-> <<>>, tag_values |-> <<>>])
    IN [timestamp |-> b.timestamp,
        tag_names |-> IF ~pushed.has_host
                      THEN Append(pushed.tag_names, "host")
                      ELSE pushed.tag_names,
        tag_values |-> IF ~pushed.has_host
                       THEN Append(pushed.tag_values, b.hostname)
                       ELSE pushed.tag_values,
        metrics_float_names |-> b.points]

-----------------------------------------------------------------------------
(* The scheduling loop of Collector::start *)

Max(a, b) == IF a >= b THEN a ELSE b

(* the eligibility test of line 410 *)

Eligible_Always(now, last_run, minLoaded) == TRUE

Eligible_Elapsed(now, last_run, minLoaded) == now - last_run >= minLoaded

Eligible(now, last_run, minLoaded) ==
    ~(now \div minLoaded = last_run \div minLoaded)

(* sources.retain of line 423 *)

TickKeep_All(s) == TRUE

TickKeep(s) == ~s.countable.closed

(* line 426: the source is sampled unless its countdown is still positive *)

Due(skip) == ~(skip > 0)

(* lines 429-431 *)

ResetSkip_One(interval, minLoaded) == 1

ResetSkip(interval, minLoaded) ==
    Max(as_secs(interval), minLoaded) \div minLoaded

(* lines 441-445: a failed send is logged and the loop goes on *)

AfterSend_Break(ok) == IF ok THEN "continue" ELSE "break"

AfterSend(ok) == "continue"

(* history of one Countable: the eligible ticks it has been through, when and
   by which thread it was last sampled, the timestamp of the last batch
   enqueued for it (-1: none yet), and whether min_interval has kept its
   value and the corrected time has not been set back since it was registered *)

NewStat(fixed) ==
    [ticks |-> 0, fixed |-> fixed, mono |-> TRUE, lastTs |-> 0, lastTid |-> 0,
     lastEnq |-> 0 - 1]

NoStat == NewStat(FALSE)

(* lines 424-447: the sources from position i on, in registry order.
   c.ne is the set of Countables whose get_counters is nonempty this tick.
   Every time of the model is far below 2^32, where `now as u32` is now. *)

RECURSIVE SampleFrom(_, _, _)
SampleFrom(i, acc, c) ==
    IF i > Len(acc.srcs) THEN acc
    ELSE
    LET source == acc.srcs[i]
        cid == source.countable.id
        skip1 == source.skip - 1
        st1 == [acc.st[cid] EXCEPT !.ticks = @ + 1]
    IN
    IF ~Due(skip1)
    THEN SampleFrom(i + 1,
             [acc EXCEPT !.srcs[i].skip = skip1, !.st[cid] = st1],
             c)
    ELSE
    LET skip2 == ResetSkip(source.interval, c.min)
        st2 == [st1 EXCEPT !.lastTs = c.now, !.lastTid = c.t]
        pull == [cid |-> cid, ts |-> c.now, prevTs |-> st1.lastTs,
                 prevTid |-> st1.lastTid]
        batch == [module |-> source.module, hostname |-> c.host,
                  tags |-> source.tags, points |-> <<"counter">>,
                  timestamp |-> c.now, cid |-> cid]
        sent == TrySend(acc.q, c.closed, batch)
    IN
    IF cid \notin c.ne
    THEN SampleFrom(i + 1,
             [acc EXCEPT !.srcs[i].skip = skip2, !.st[cid] = st2,
                         !.pulled = Append(@, pull)],
             c)
    ELSE
    LET st3 == IF sent.ok THEN [st2 EXCEPT !.lastEnq = batch.timestamp] ELSE st2
        acc3 == [acc EXCEPT !.srcs[i].skip = skip2, !.st[cid] = st3,
                            !.q = sent.q,
                            !.pulled = Append(@, pull),
                            !.sent = IF sent.ok THEN Append(@, cid) ELSE @,
                            !.dropped = IF sent.ok THEN @ ELSE Append(@, cid)]
    IN
    IF AfterSend(sent.ok) = "break" THEN acc3 ELSE SampleFrom(i + 1, acc3, c)

(* lines 420-448 *)

SampleAll(srcs, q, st, c) ==
    LET kept == SelectSeq(srcs, TickKeep)
    IN SampleFrom(1,
           [srcs |-> kept, q |-> q, st |-> st,
            pulled |-> <<>>, sent |-> <<>>, dropped |-> <<>>],
           c)

-----------------------------------------------------------------------------
(* State after Collector::with_min_interval(hostname, interval, ntp_diff) *)

NoReg == [m |-> "none"]
Idle == [pc |-> "idle", d |-> 0, x |-> 0]
NoThread == [pc |-> "none", last_run |-> 0, min |-> 0, now |-> 0, host |-> "",
             called |-> <<>>]
Ended(how) == [NoThread EXCEPT !.pc = how]

New(intervals, t0) ==
    /\ requested \in intervals
    /\ min_interval = RoundMinInterval(requested)
    /\ ntp_diff = 0
    /\ ntpSets = 0
    /\ clock = t0
    /\ hostname = "h1"
    /\ sources = RegisterSources(<<>>,
                     NewSource(QueueStats, 0, min_interval, min_interval))
    /\ pre_hooks = <<>>
    /\ running = FALSE
    /\ poisoned = FALSE
    /\ runLock = 0
    /\ notified = {}
    /\ thread = 0
    /\ threads = [t \in Tids |-> NoThread]
    /\ nextTid = 0
    /\ starting = 0
    /\ stopping = 0
    /\ stops = 0
    /\ reg = NoReg
    /\ nextCid = 1
    /\ queue = <<>>
    /\ queueClosed = FALSE
    /\ stat = [c \in Cids |-> IF c = 0 THEN NewStat(TRUE) ELSE NoStat]
    /\ ev = [op |-> "new"]
    /\ count = 0
    /\ sum_ns = 0
    /\ max_ns = 0
    /\ upd = [c \in Callers |-> Idle]
    /\ issued = [n |-> 0, total |-> 0, largest |-> 0, retried |-> FALSE]

Init == New(Durations, StartClock)

-----------------------------------------------------------------------------
(* register_countable, line 250: the first load of min_interval *)

RegisterLoad(m) ==
    /\ reg = NoReg
    /\ nextCid <= MaxRegs
    /\ reg' = [m |-> m, min |-> min_interval, fixed |-> TRUE]
    /\ ev' = [op |-> "register_load"]
    /\ UNCHANGED <<requested, min_interval, ntp_diff, ntpSets, clock, hostname, sources,
                   pre_hooks, running, poisoned, runLock, notified, thread, threads,
                   nextTid, starting, stopping, stops, nextCid, queue, queueClosed, stat>>
    /\ UNCHANGED accVars

(* register_countable, lines 251-300 *)

RegisterCommit ==
    /\ reg # NoReg
    /\ LET source == NewSource(reg.m, nextCid, reg.min, min_interval)
           equal == {i \in 1..Len(sources) : SourceEq(sources[i], source)}
           gone == {i \in 1..Len(sources) : ~RegisterKeep(sources[i], source)}
           closedGone == {sources[i].countable.id : i \in {j \in gone : sources[j].countable.closed}}
           openGone == {sources[i].countable.id : i \in {j \in equal : ~sources[j].countable.closed}}
       IN IF RegisterPanics(source.interval, reg.min)
          THEN /\ ev' = [op |-> "register_panic"]
               /\ UNCHANGED <<sources, stat>>
          ELSE /\ sources' = RegisterSources(sources, source)
               /\ stat' = [stat EXCEPT ![nextCid] = NewStat(reg.fixed)]
               /\ ev' = [op |-> "register", cid |-> nextCid,
                         replaced |-> openGone, pruned |-> closedGone]
    /\ reg' = NoReg
    /\ nextCid' = nextCid + 1
    /\ UNCHANGED <<requested, min_interval, ntp_diff, ntpSets, clock, hostname, pre_hooks,
                   running, poisoned, runLock, notified, thread, threads, nextTid,
                   starting, stopping, stops, queue, queueClosed>>
    /\ UNCHANGED accVars

(* deregister_countables *)

DeregisterModules ==
    {QueueStats} \cup IdentityModules

DeregisterLists ==
    {<<m>> : m \in DeregisterModules}
        \cup {<<m1, m2>> : m1 \in {QueueStats}, m2 \in IdentityModules}

Deregister(ms) ==
    /\ sources' = DeregisterSources(sources, ms)
    /\ sources' # sources
    /\ ev' = [op |-> "deregister", ms |-> ms]
    /\ UNCHANGED <<requested, min_interval, ntp_diff, ntpSets, clock, hostname, pre_hooks,
                   running, poisoned, runLock, notified, thread, threads, nextTid,
                   starting, stopping, stops, reg, nextCid, queue, queueClosed, stat>>
    /\ UNCHANGED accVars

(* register_pre_hook *)

RegisterPreHook ==
    /\ Len(pre_hooks) < MaxHooks
    /\ pre_hooks' = Append(pre_hooks, Len(pre_hooks) + 1)
    /\ ev' = [op |-> "register_pre_hook"]
    /\ UNCHANGED <<requested, min_interval, ntp_diff, ntpSets, clock, hostname, sources,
                   running, poisoned, runLock, notified, thread, threads, nextTid,
                   starting, stopping, stops, reg, nextCid, queue, queueClosed, stat>>
    /\ UNCHANGED accVars

(* set_hostname *)

SetHostname(h) ==
    /\ h # hostname
    /\ hostname' = IF h = "" THEN hostname ELSE h
    /\ ev' = [op |-> "set_hostname"]
    /\ UNCHANGED <<requested, min_interval, ntp_diff, ntpSets, clock, sources, pre_hooks,
                   running, poisoned, runLock, notified, thread, threads, nextTid,
                   starting, stopping, stops, reg, nextCid, queue, queueClosed, stat>>
    /\ UNCHANGED accVars

(* set_min_interval *)

SetMinInterval(interval) ==
    /\ min_interval' = as_secs(interval)
    /\ min_interval' # min_interval
    /\ stat' = [c \in Cids |-> [stat[c] EXCEPT !.fixed = FALSE]]
    /\ reg' = IF reg = NoReg THEN reg ELSE [reg EXCEPT !.fixed = FALSE]
    /\ ev' = [op |-> "set_min_interval"]
    /\ UNCHANGED <<requested, ntp_diff, ntpSets, clock, hostname, sources, pre_hooks,
                   running, poisoned, runLock, notified, thread, threads, nextTid,
                   starting, stopping, stops, nextCid, queue, queueClosed>>
    /\ UNCHANGED accVars

-----------------------------------------------------------------------------
(* The environment: time, the NTP offset, the Countables, the queue's reader *)

AdvanceClock ==
    /\ clock < MaxClock
    /\ clock' = clock + 1
    /\ ev' = [op |-> "clock"]
    /\ UNCHANGED <<requested, min_interval, ntp_diff, ntpSets, hostname, sources,
                   pre_hooks, running, poisoned, runLock, notified, thread, threads,
                   nextTid, starting, stopping, stops, reg, nextCid, queue, queueClosed,
                   stat>>
    /\ UNCHANGED accVars

SetNtpDiff(n) ==
    /\ ntpSets < MaxNtpSets
    /\ n # ntp_diff
    /\ ntp_diff' = n
    /\ ntpSets' = ntpSets + 1
    /\ stat' = IF n < ntp_diff
               THEN [c \in Cids |-> [stat[c] EXCEPT !.mono = FALSE]]
               ELSE stat
    /\ ev' = [op |-> "ntp"]
    /\ UNCHANGED <<requested, min_interval, clock, hostname, sources, pre_hooks,
                   running, poisoned, runLock, notified, thread, threads, nextTid,
                   starting, stopping, stops, reg, nextCid, queue, queueClosed>>
    /\ UNCHANGED accVars

CloseCountable(i) ==
    /\ i \in 1..Len(sources)
    /\ ~sources[i].countable.closed
    /\ sources' = [sources EXCEPT ![i].countable.closed = TRUE]
    /\ ev' = [op |-> "close"]
    /\ UNCHANGED <<requested, min_interval, ntp_diff, ntpSets, clock, hostname,
                   pre_hooks, running, poisoned, runLock, notified, thread, threads,
                   nextTid, starting, stopping, stops, reg, nextCid, queue, queueClosed,
                   stat>>
    /\ UNCHANGED accVars

QueueRecv ==
    /\ queue # <<>>
    /\ queue' = Tail(queue)
    /\ ev' = [op |-> "recv"]
    /\ UNCHANGED <<requested, min_interval, ntp_diff, ntpSets, clock, hostname,
                   sources, pre_hooks, running, poisoned, runLock, notified, thread,
                   threads, nextTid, starting, stopping, stops, reg, nextCid, queueClosed,
                   stat>>
    /\ UNCHANGED accVars

(* ArcBatch::encode, called by the queue's reader on the batch it has taken *)

Encode ==
    /\ queue # <<>>
    /\ queue' = Tail(queue)
    /\ ev' = [op |-> "encode", batch |-> Head(queue), stats |-> to_stats(Head(queue))]
    /\ UNCHANGED <<requested, min_interval, ntp_diff, ntpSets, clock, hostname,
                   sources, pre_hooks, running, poisoned, runLock, notified, thread,
                   threads, nextTid, starting, stopping, stops, reg, nextCid, queueClosed,
                   stat>>
    /\ UNCHANGED accVars

QueueTerminate ==
    /\ ~queueClosed
    /\ queueClosed' = TRUE
    /\ ev' = [op |-> "terminate"]
    /\ UNCHANGED <<requested, min_interval, ntp_diff, ntpSets, clock, hostname,
                   sources, pre_hooks, running, poisoned, runLock, notified, thread,
                   threads, nextTid, starting, stopping, stops, reg, nextCid, queue, stat>>
    /\ UNCHANGED accVars

-----------------------------------------------------------------------------
(* start(), lines 376-383: the running flag, under its mutex *)

StartProceeds_Always(flag) == TRUE

StartProceeds(flag) == ~flag

StartCheck ==
    /\ runLock = 0
    /\ ~poisoned
    /\ IF StartProceeds(running)
       THEN /\ nextTid + starting < MaxThreads
            /\ running' = TRUE
            /\ starting' = starting + 1
            /\ ev' = [op |-> "start"]
       ELSE /\ ev' = [op |-> "start_noop"]
            /\ UNCHANGED <<running, starting>>
    /\ UNCHANGED <<requested, min_interval, ntp_diff, ntpSets, clock, hostname,
                   sources, pre_hooks, poisoned, runLock, notified, thread, threads,
                   nextTid, stopping, stops, reg, nextCid, queue, queueClosed, stat>>
    /\ UNCHANGED accVars

(* start(), lines 385-452: spawn the thread and store its handle *)

StartSpawn ==
    /\ starting > 0
    /\ nextTid' = nextTid + 1
    /\ threads' = [threads EXCEPT ![nextTid + 1] = [NoThread EXCEPT !.pc = "top"]]
    /\ thread' = nextTid + 1
    /\ starting' = starting - 1
    /\ ev' = [op |-> "spawn"]
    /\ UNCHANGED <<requested, min_interval, ntp_diff, ntpSets, clock, hostname,
                   sources, pre_hooks, running, poisoned, runLock, notified, stopping, stops,
                   reg, nextCid, queue, queueClosed, stat>>
    /\ UNCHANGED accVars

(* notify_stop(), line 371 *)

NotifyStopClear ==
    /\ runLock = 0
    /\ ~poisoned
    /\ stops < MaxStops
    /\ running' = FALSE
    /\ stopping' = stopping + 1
    /\ stops' = stops + 1
    /\ ev' = [op |-> "stop"]
    /\ UNCHANGED <<requested, min_interval, ntp_diff, ntpSets, clock, hostname,
                   sources, pre_hooks, poisoned, runLock, notified, thread, threads,
                   nextTid, starting, reg, nextCid, queue, queueClosed, stat>>
    /\ UNCHANGED accVars

(* notify_stop(), line 372 *)

NotifyStopTake ==
    /\ stopping > 0
    /\ thread' = 0
    /\ stopping' = stopping - 1
    /\ ev' = [op |-> "stop_return", handle |-> thread]
    /\ UNCHANGED stops
    /\ UNCHANGED <<requested, min_interval, ntp_diff, ntpSets, clock, hostname,
                   sources, pre_hooks, running, poisoned, runLock, notified, threads,
                   nextTid, starting, reg, nextCid, queue, queueClosed, stat>>
    /\ UNCHANGED accVars

-----------------------------------------------------------------------------
(* The scheduling thread, lines 396-449 *)

(* lines 398-403: lock, test the flag, enter the timed wait *)

LoopTop(t) ==
    /\ threads[t].pc = "top"
    /\ runLock = 0
    /\ threads' = [threads EXCEPT ![t] =
                     IF poisoned THEN Ended("panic")
                     ELSE IF ~running THEN Ended("exit")
                     ELSE [@ EXCEPT !.pc = "wait"]]
    /\ ev' = [op |-> "top", t |-> t]
    /\ UNCHANGED <<requested, min_interval, ntp_diff, ntpSets, clock, hostname,
                   sources, pre_hooks, running, poisoned, runLock, notified, thread,
                   nextTid, starting, stopping, stops, reg, nextCid, queue, queueClosed,
                   stat>>
    /\ UNCHANGED accVars

(* lines 403-415: the wait returns (timed out, or woken), the guard is
   reacquired, the flag is tested and the tick is tested for eligibility.
   wait_timeout(TICK_CYCLE) returns whether or not the condition was
   notified. *)

(* lines 398-449: the guard of the running mutex is a local of the loop body
   and is held from the end of the wait to the end of the iteration *)

GuardHolder_Dropped(t) == 0

GuardHolder(t) == t

WaitReturns_OnNotify(t) == t \in notified

WaitReturns(t) == TRUE

Wake(t) ==
    /\ threads[t].pc = "wait"
    /\ WaitReturns(t)
    /\ runLock = 0
    /\ LET cause == IF t \in notified THEN "notify" ELSE "timeout"
           minLoaded == min_interval
           now == get_timestamp(ntp_diff)
       IN
       /\ notified' = notified \ {t}
       /\ IF poisoned
          THEN /\ threads' = [threads EXCEPT ![t] = Ended("panic")]
               /\ ev' = [op |-> "wake_panic", t |-> t, cause |-> cause]
               /\ UNCHANGED <<poisoned, runLock>>
          ELSE IF ~running
          THEN /\ threads' = [threads EXCEPT ![t] = Ended("exit")]
               /\ ev' = [op |-> "wake_exit", t |-> t, cause |-> cause]
               /\ UNCHANGED <<poisoned, runLock>>
          ELSE IF minLoaded = 0
          THEN /\ threads' = [threads EXCEPT ![t] = Ended("panic")]
               /\ poisoned' = TRUE
               /\ ev' = [op |-> "wake_div0", t |-> t, cause |-> cause]
               /\ UNCHANGED runLock
          ELSE IF ~Eligible(now, threads[t].last_run, minLoaded)
          THEN /\ threads' = [threads EXCEPT ![t].pc = "top"]
               /\ ev' = [op |-> "wake_skip", t |-> t, cause |-> cause]
               /\ UNCHANGED <<poisoned, runLock>>
          ELSE /\ threads' = [threads EXCEPT ![t] =
                      [pc |-> "hooks", last_run |-> now, min |-> minLoaded,
                       now |-> now, host |-> hostname, called |-> <<>>]]
               /\ runLock' = GuardHolder(t)
               /\ ev' = [op |-> "wake_tick", t |-> t, cause |-> cause]
               /\ UNCHANGED poisoned
    /\ UNCHANGED <<requested, min_interval, ntp_diff, ntpSets, clock, hostname,
                   sources, pre_hooks, running, thread, nextTid, starting, stopping, stops,
                   reg, nextCid, queue, queueClosed, stat>>
    /\ UNCHANGED accVars

(* lines 416-418: the hooks invoked by iter_mut().for_each, in the order of
   their invocation; threads[t].called keeps them until the end of the tick *)

HookCalls_Reversed(hooks) == [i \in 1..Len(hooks) |-> hooks[Len(hooks) + 1 - i]]

HookCalls(hooks) == hooks

RunHooks(t) ==
    /\ threads[t].pc = "hooks"
    /\ threads' = [threads EXCEPT ![t].pc = "sample",
                                  ![t].called = HookCalls(pre_hooks)]
    /\ ev' = [op |-> "hooks", t |-> t, called |-> HookCalls(pre_hooks)]
    /\ UNCHANGED <<requested, min_interval, ntp_diff, ntpSets, clock, hostname,
                   sources, pre_hooks, running, poisoned, runLock, notified, thread,
                   nextTid, starting, stopping, stops, reg, nextCid, queue, queueClosed,
                   stat>>
    /\ UNCHANGED accVars

(* lines 420-449: prune, sample, and release the guards at the end of the
   iteration *)

Sample(t) ==
    /\ threads[t].pc = "sample"
    /\ \E ne \in SUBSET CidsOf(sources) :
         LET c == [t |-> t, min |-> threads[t].min, now |-> threads[t].now,
                   host |-> threads[t].host, ne |-> ne, closed |-> queueClosed]
             r == SampleAll(sources, queue, stat, c)
         IN /\ sources' = r.srcs
            /\ queue' = r.q
            /\ stat' = r.st
            /\ ev' = [op |-> "sample", t |-> t, pulled |-> r.pulled,
                      sent |-> r.sent, dropped |-> r.dropped,
                      pruned |-> CidsOf(sources) \ CidsOf(r.srcs)]
    /\ threads' = [threads EXCEPT ![t] =
                     [NoThread EXCEPT !.pc = "top", !.last_run = threads[t].last_run]]
    /\ runLock' = 0
    /\ UNCHANGED <<requested, min_interval, ntp_diff, ntpSets, clock, hostname,
                   pre_hooks, running, poisoned, notified, thread, nextTid, starting,
                   stopping, stops, reg, nextCid, queueClosed>>
    /\ UNCHANGED accVars

-----------------------------------------------------------------------------
(* AtomicTimeStats::update, one atomic operation per step.  The totals of
   the model stay far below 2^32 (count) and 2^64 (sum_ns, max_ns), where
   fetch_add would wrap. *)

(* AtomicU64::compare_exchange_weak on max_ns, as fetch_update uses it; a
   spurious failure returns the value it was called with and changes nothing *)

CompareExchange_Store(cur, expected, new) == [ok |-> TRUE, val |-> cur]

CompareExchange(cur, expected, new) ==
    IF cur = expected THEN [ok |-> TRUE, val |-> cur] ELSE [ok |-> FALSE, val |-> cur]

(* the closure passed to fetch_update: Some(nanos) when x < nanos *)

Replaces(x, nanos) == x < nanos

(* a caller enters update(duration) *)

UpdateCall(c, d) ==
    /\ upd[c].pc = "idle"
    /\ issued.n < MaxUpdates
    /\ upd' = [upd EXCEPT ![c] = [pc |-> "sum", d |-> d, x |-> 0]]
    /\ issued' = [issued EXCEPT !.n = @ + 1, !.total = @ + d,
                                !.largest = Max(@, d)]
    /\ UNCHANGED <<count, sum_ns, max_ns>>
    /\ UNCHANGED collectorVars

(* sum_ns.fetch_add *)

UpdateSum(c) ==
    /\ upd[c].pc = "sum"
    /\ sum_ns' = sum_ns + upd[c].d
    /\ upd' = [upd EXCEPT ![c].pc = "count"]
    /\ UNCHANGED <<count, max_ns, issued>>
    /\ UNCHANGED collectorVars

(* count.fetch_add *)

UpdateCount(c) ==
    /\ upd[c].pc = "count"
    /\ count' = count + 1
    /\ upd' = [upd EXCEPT ![c].pc = "load"]
    /\ UNCHANGED <<sum_ns, max_ns, issued>>
    /\ UNCHANGED collectorVars

(* fetch_update: the initial load of max_ns and the first call of the closure *)

UpdateLoad(c) ==
    /\ upd[c].pc = "load"
    /\ upd' = [upd EXCEPT ![c] =
                 IF Replaces(max_ns, upd[c].d)
                 THEN [@ EXCEPT !.pc = "cas", !.x = max_ns]
                 ELSE Idle]
    /\ UNCHANGED <<count, sum_ns, max_ns, issued>>
    /\ UNCHANGED collectorVars

(* fetch_update: compare_exchange_weak, and on failure the closure again
   with the value found *)

UpdateCas(c) ==
    /\ upd[c].pc = "cas"
    /\ LET r == CompareExchange(max_ns, upd[c].x, upd[c].d) IN
       IF r.ok
       THEN /\ max_ns' = upd[c].d
            /\ upd' = [upd EXCEPT ![c] = Idle]
            /\ UNCHANGED issued
       ELSE /\ upd' = [upd EXCEPT ![c] =
                         IF Replaces(r.val, upd[c].d)
                         THEN [@ EXCEPT !.x = r.val]
                         ELSE Idle]
            /\ issued' = [issued EXCEPT !.retried = TRUE]
            /\ UNCHANGED max_ns
    /\ UNCHANGED <<count, sum_ns>>
    /\ UNCHANGED collectorVars

-----------------------------------------------------------------------------

(* The lifecycle: start(), notify_stop() and the scheduling threads *)

NextLife ==
    \/ StartCheck
    \/ StartSpawn
    \/ NotifyStopClear
    \/ NotifyStopTake
    \/ \E t \in Tids : LoopTop(t)
    \/ \E t \in Tids : Wake(t)
    \/ \E t \in Tids : RunHooks(t)
    \/ \E t \in Tids : Sample(t)
    \/ AdvanceClock

SpecLife == New({TICK_CYCLE}, LateClock) /\ [][NextLife]_vars

(* Stopping: the lifecycle at one instant of the clock, with scheduling
   threads that the operating system keeps running: a thread that can take
   its next step eventually takes it (the timed wait ends after TICK_CYCLE
   at the latest) *)

NextStop ==
    \/ StartCheck
    \/ StartSpawn
    \/ NotifyStopClear
    \/ NotifyStopTake
    \/ \E t \in Tids : LoopTop(t)
    \/ \E t \in Tids : Wake(t)
    \/ \E t \in Tids : RunHooks(t)
    \/ \E t \in Tids : Sample(t)

SpecStop ==
    /\ New({TICK_CYCLE}, LateClock)
    /\ [][NextStop]_vars
    /\ \A t \in Tids : /\ WF_vars(LoopTop(t))
                       /\ WF_vars(Wake(t))
                       /\ WF_vars(RunHooks(t))
                       /\ WF_vars(Sample(t))

(* The registry: registration, deregistration and closing Countables, under
   one scheduling thread *)

NextRegistry ==
    \/ \E m \in IdentityModules : RegisterLoad(m)
    \/ RegisterCommit
    \/ \E m \in DeregisterModules : Deregister(<<m>>)
    \/ \E i \in 1..MaxRegs + 1 : CloseCountable(i)
    \/ AdvanceClock
    \/ StartCheck
    \/ StartSpawn
    \/ \E t \in Tids : LoopTop(t)
    \/ \E t \in Tids : Wake(t)
    \/ \E t \in Tids : RunHooks(t)
    \/ \E t \in Tids : Sample(t)

SpecRegistry == New({TICK_CYCLE}, LateClock) /\ [][NextRegistry]_vars

(* The outbound queue: several sources sampled in one tick while the reader
   drains the queue or the queue is terminated *)

NextQueue ==
    \/ \E m \in IdentityModules : RegisterLoad(m)
    \/ RegisterCommit
    \/ QueueRecv
    \/ QueueTerminate
    \/ StartCheck
    \/ StartSpawn
    \/ \E t \in Tids : LoopTop(t)
    \/ \E t \in Tids : Wake(t)
    \/ \E t \in Tids : RunHooks(t)
    \/ \E t \in Tids : Sample(t)
    \/ AdvanceClock

SpecQueue == New({TICK_CYCLE}, LateClock) /\ [][NextQueue]_vars

(* The countdown: sources with interval overrides sampled tick after tick
   by one scheduling thread *)

NextSkip ==
    \/ \E m \in IntervalModules : RegisterLoad(m)
    \/ RegisterCommit
    \/ StartCheck
    \/ StartSpawn
    \/ \E t \in Tids : LoopTop(t)
    \/ \E t \in Tids : Wake(t)
    \/ \E t \in Tids : RunHooks(t)
    \/ \E t \in Tids : Sample(t)
    \/ AdvanceClock

SpecSkip == New({TICK_CYCLE}, StartClock) /\ [][NextSkip]_vars

(* The schedule over time: one scheduling thread under a changing minimum
   interval and a changing NTP offset *)

NextTime ==
    \/ \E d \in Durations : SetMinInterval(d)
    \/ \E n \in NtpDiffs : SetNtpDiff(n)
    \/ StartCheck
    \/ StartSpawn
    \/ \E t \in Tids : LoopTop(t)
    \/ \E t \in Tids : Wake(t)
    \/ \E t \in Tids : RunHooks(t)
    \/ \E t \in Tids : Sample(t)
    \/ AdvanceClock

SpecTime == New({2 * TICK_CYCLE}, LateClock) /\ [][NextTime]_vars

(* The timestamps of the batches a reader takes off the queue, under a
   changing minimum interval and a changing NTP offset *)

NextStamps ==
    \/ \E d \in Durations : SetMinInterval(d)
    \/ \E n \in NtpDiffs : SetNtpDiff(n)
    \/ QueueRecv
    \/ StartCheck
    \/ StartSpawn
    \/ \E t \in Tids : LoopTop(t)
    \/ \E t \in Tids : Wake(t)
    \/ \E t \in Tids : RunHooks(t)
    \/ \E t \in Tids : Sample(t)
    \/ AdvanceClock

SpecStamps == New({TICK_CYCLE}, LateClock) /\ [][NextStamps]_vars

(* The pre-hooks: hooks registered while the scheduling thread runs *)

NextHooks ==
    \/ RegisterPreHook
    \/ StartCheck
    \/ StartSpawn
    \/ \E t \in Tids : LoopTop(t)
    \/ \E t \in Tids : Wake(t)
    \/ \E t \in Tids : RunHooks(t)
    \/ \E t \in Tids : Sample(t)
    \/ AdvanceClock

SpecHooks == New({TICK_CYCLE}, LateClock) /\ [][NextHooks]_vars

(* The wire records: batches of sources registered with and without a host
   tag, encoded by the queue's reader while the hostname changes *)

NextWire ==
    \/ \E m \in HostModules : RegisterLoad(m)
    \/ RegisterCommit
    \/ \E h \in Hostnames : SetHostname(h)
    \/ Encode
    \/ StartCheck
    \/ StartSpawn
    \/ \E t \in Tids : LoopTop(t)
    \/ \E t \in Tids : Wake(t)
    \/ \E t \in Tids : RunHooks(t)
    \/ \E t \in Tids : Sample(t)

SpecWire == New({TICK_CYCLE}, LateClock) /\ [][NextWire]_vars

(* Deregistration: lists of module identities deregistered from a registry
   that registrations and one tick have filled *)

NextDeregister ==
    \/ \E m \in IdentityModules : RegisterLoad(m)
    \/ RegisterCommit
    \/ \E ms \in DeregisterLists : Deregister(ms)
    \/ StartCheck
    \/ StartSpawn
    \/ \E t \in Tids : LoopTop(t)
    \/ \E t \in Tids : Wake(t)
    \/ \E t \in Tids : RunHooks(t)
    \/ \E t \in Tids : Sample(t)

SpecDeregister == New({TICK_CYCLE}, LateClock) /\ [][NextDeregister]_vars

(* The collector-wide settings after construction with any interval *)

NextSettings ==
    \/ \E d \in Durations : SetMinInterval(d)
    \/ \E h \in Hostnames : SetHostname(h)
    \/ \E m \in IntervalModules : RegisterLoad(m)
    \/ RegisterCommit
    \/ StartCheck
    \/ StartSpawn
    \/ \E t \in Tids : LoopTop(t)
    \/ \E t \in Tids : Wake(t)
    \/ \E t \in Tids : RunHooks(t)
    \/ \E t \in Tids : Sample(t)

SpecSettings == Init /\ [][NextSettings]_vars

(* The rolling accumulator under concurrent callers *)

NextAccum ==
    \/ \E c \in Callers, d \in Nanos : UpdateCall(c, d)
    \/ \E c \in Callers : UpdateSum(c)
    \/ \E c \in Callers : UpdateCount(c)
    \/ \E c \in Callers : UpdateLoad(c)
    \/ \E c \in Callers : UpdateCas(c)

SpecAccum == New({TICK_CYCLE}, StartClock) /\ [][NextAccum]_vars

-----------------------------------------------------------------------------
(* Properties *)

ClosedCids(srcs) ==
    {srcs[i].countable.id : i \in {j \in 1..Len(srcs) : srcs[j].countable.closed}}

PulledCids(e) == {e.pulled[i].cid : i \in 1..Len(e.pulled)}

LiveThreads == {t \in Tids : threads[t].pc \in {"top", "wait", "hooks", "sample"}}

\* C1: the registry never holds two sources with the same identity
\* (module, tags); right after a registration the new source is the last
\* entry and the only one with its identity.
C1_UniqueIdentity ==
    /\ \A i, j \in 1..Len(sources) :
          SourceEq(sources[i], sources[j]) => i = j
    /\ ev.op = "register" =>
          /\ Len(sources) >= 1
          /\ sources[Len(sources)].countable.id = ev.cid
          /\ Cardinality({i \in 1..Len(sources) :
                 SourceEq(sources[i], sources[Len(sources)])}) = 1

\* a registration has just replaced an entry that had not reported closure
C1_Witness == ev.op = "register" /\ ev.replaced # {}

\* C2: with the minimum interval fixed at m since the registration, a source
\* whose interval is k*m is sampled on exactly those eligible ticks whose
\* number, counted from its registration, is a multiple of k (k = 1 without
\* an override: every eligible tick).
C2_SkipSchedule ==
    ev.op = "sample" =>
        \A i \in 1..Len(sources) :
            LET s == sources[i]
                c == s.countable.id
                m == min_interval
            IN (stat[c].fixed /\ m > 0 /\ as_secs(s.interval) % m = 0) =>
                   ((c \in PulledCids(ev)) <=>
                        (stat[c].ticks % (as_secs(s.interval) \div m) = 0))

\* a source with an interval of 2*m has just been sampled for the second
\* time, on its fourth eligible tick
C2_Witness ==
    /\ ev.op = "sample"
    /\ \E i \in 1..Len(sources) :
          /\ as_secs(sources[i].interval) = 2 * min_interval
          /\ stat[sources[i].countable.id].fixed
          /\ stat[sources[i].countable.id].ticks = 4
          /\ sources[i].countable.id \in PulledCids(ev)

\* C3: a source that reports closed when the scheduling loop checks it is
\* removed on that tick without its counters being pulled or a batch being
\* enqueued for it; register_countable prunes closed entries too; a removed
\* source never comes back, and only registry entries are sampled.
C3_ClosedPruned ==
    [][ /\ ev'.op = "sample" =>
              /\ CidsOf(sources') \cap ClosedCids(sources) = {}
              /\ PulledCids(ev') \cap ClosedCids(sources) = {}
              /\ PulledCids(ev') \subseteq CidsOf(sources)
              /\ \A i \in 1..Len(queue') :
                    queue'[i].cid \in ClosedCids(sources) =>
                        i <= Len(queue) /\ queue[i] = queue'[i]
        /\ ev'.op = "register" =>
              CidsOf(sources') \cap ClosedCids(sources) = {}
        /\ \A c \in Cids :
              (c < nextCid /\ c \notin CidsOf(sources)) => c \notin CidsOf(sources')
      ]_vars

\* a tick has just pruned a closed source and sampled another one
C3_Witness == ev.op = "sample" /\ ev.pruned # {} /\ ev.pulled # <<>>

\* C4: the queue never exceeds its capacity; a tick that starts with the
\* queue full or terminated leaves the queue as it was, still pulls every
\* due source, and ends with the thread back at the top of its loop.
C4_FullQueueDrops ==
    [][ ev'.op = "sample" =>
          /\ Len(queue') <= QueueCap
          /\ Len(queue') = Len(queue) + Len(ev'.sent)
          /\ (queueClosed \/ Len(queue) >= QueueCap) => queue' = queue
          /\ \A i \in 1..Len(sources) :
                (~sources[i].countable.closed /\ sources[i].skip - 1 <= 0) =>
                    sources[i].countable.id \in PulledCids(ev')
          /\ threads'[ev'.t].pc = "top"
          /\ runLock' = 0
      ]_vars

\* the batch of the first source of a tick has just been dropped and a later
\* source of the same tick was still pulled
C4_Witness ==
    /\ ev.op = "sample"
    /\ Len(ev.pulled) >= 2
    /\ Len(ev.dropped) >= 1
    /\ ev.dropped[1] = ev.pulled[1].cid

\* C5: there is never more than one live scheduling thread.
C5_OneSchedulingThread == Cardinality(LiveThreads) <= 1

\* C6: a thread that leaves its timed wait and finds the running flag
\* cleared was woken by a notification of the condition.
C6_StopWakesWait == ev.op = "wake_exit" => ev.cause = "notify"

\* C7: start() called while the running flag is set spawns no thread and
\* leaves the flag, the stored handle, the threads, the registry, the
\* pre-hooks and the hostname unchanged.
C7_StartIdempotent ==
    [][ (running /\ StartCheck) =>
            UNCHANGED <<running, thread, threads, nextTid, starting, sources,
                        pre_hooks, hostname>>
      ]_vars

\* start() has just been called while the running flag was set
C7_Witness == ev.op = "start_noop" /\ running

\* C8: the minimum interval is always at least one tick cadence, and no
\* division by it fails.
C8_MinIntervalFloor ==
    /\ min_interval >= as_secs(TICK_CYCLE)
    /\ ev.op \notin {"wake_div0", "register_panic"}

\* C9: right after construction the minimum interval is one tick cadence
\* for a request of at most one tick cadence, and the next multiple of the
\* tick cadence above the request for a request that is not a multiple.
C9_RoundsUp ==
    ev.op = "new" =>
        /\ requested <= TICK_CYCLE => from_secs(min_interval) = TICK_CYCLE
        /\ (requested > TICK_CYCLE /\ requested % TICK_CYCLE # 0) =>
               from_secs(min_interval) = (requested \div TICK_CYCLE + 1) * TICK_CYCLE

\* C10 as stated: two consecutive samplings of a source are at least the
\* minimum interval apart (here already for samplings by one thread, with
\* the minimum interval constant and the corrected time never set back).
C10_MinGap ==
    ev.op = "sample" =>
        \A i \in 1..Len(ev.pulled) :
            LET p == ev.pulled[i] IN
            (p.prevTid = ev.t /\ stat[p.cid].fixed /\ stat[p.cid].mono) =>
                p.ts - p.prevTs >= min_interval

\* C10 as amended: with the minimum interval constant at m and the corrected
\* time never set back, two consecutive samplings of a source by the same
\* scheduling thread fall into different aligned windows [j*m, (j+1)*m).
C10_DistinctWindows ==
    ev.op = "sample" =>
        \A i \in 1..Len(ev.pulled) :
            LET p == ev.pulled[i] IN
            (p.prevTid = ev.t /\ stat[p.cid].fixed /\ stat[p.cid].mono) =>
                p.ts \div min_interval > p.prevTs \div min_interval

\* a source has just been sampled less than the minimum interval after its
\* previous sampling by the same thread
C10_Witness ==
    /\ ev.op = "sample"
    /\ \E i \in 1..Len(ev.pulled) :
          LET p == ev.pulled[i] IN
          /\ p.prevTid = ev.t /\ stat[p.cid].fixed /\ stat[p.cid].mono
          /\ p.ts - p.prevTs < min_interval

\* C13: max_ns never decreases, and whenever every update call issued so
\* far has returned, count is the number of calls, sum_ns is the total of
\* their durations and max_ns is the largest of their durations.
C13_AccumulatorTotals ==
    [][ /\ max_ns' >= max_ns
        /\ (\A c \in Callers : upd'[c].pc = "idle") =>
              /\ count' = issued'.n
              /\ sum_ns' = issued'.total
              /\ max_ns' = issued'.largest
      ]_vars

\* every call has returned, and one of them lost a compare-exchange on
\* max_ns to a concurrent caller and went round the retry loop
C13_Witness ==
    /\ \A c \in Callers : upd[c].pc = "idle"
    /\ issued.n = MaxUpdates
    /\ issued.retried
    /\ max_ns = issued.largest

\* C11: every batch enqueued for a source has a timestamp greater than the
\* timestamp of the batch enqueued for that source before it.
C11_TimestampsIncrease ==
    [][ ev'.op = "sample" =>
          \A i \in 1..Len(ev'.sent) :
              stat'[ev'.sent[i]].lastEnq > stat[ev'.sent[i]].lastEnq
      ]_vars

\* C12: the step that runs the hooks belongs to an eligible tick, invokes
\* every registered hook once, in registration order, and pulls no counters;
\* counters are pulled only by a thread whose hooks have run on this tick;
\* a wake that is not an eligible tick, and any step but these two, invokes
\* no hook.
C12_HooksBeforeSampling ==
    [][ /\ ev'.op = "hooks" =>
              /\ threads[ev'.t].pc = "hooks"
              /\ threads'[ev'.t].called = pre_hooks
              /\ ev'.called = pre_hooks
              /\ \A i, j \in 1..Len(ev'.called) :
                    i < j => ev'.called[i] < ev'.called[j]
              /\ UNCHANGED <<sources, queue, stat>>
        /\ ev'.op = "sample" =>
              /\ threads[ev'.t].pc = "sample"
              /\ Len(threads[ev'.t].called) <= Len(pre_hooks)
              /\ \A i \in 1..Len(threads[ev'.t].called) :
                    threads[ev'.t].called[i] = pre_hooks[i]
        /\ ev'.op \in {"wake_skip", "wake_exit", "top"} =>
              /\ threads'[ev'.t].called = <<>>
              /\ threads'[ev'.t].pc \notin {"hooks", "sample"}
        /\ \A t \in Tids :
              threads'[t].called # threads[t].called => ev'.op \in {"hooks", "sample"}
      ]_vars

\* two hooks have just been invoked, in registration order, on an eligible
\* tick that is not the first
C12_Witness ==
    /\ ev.op = "hooks"
    /\ Len(ev.called) >= 2
    /\ stat[0].ticks >= 1

\* C14: the wire record of a batch has tag names and tag values of equal
\* length and exactly one tag named "host"; for a batch without a "host" tag
\* they are the batch's tags in order followed by ("host", the hostname
\* captured in the batch), one longer than the batch's tags; for a batch with
\* a "host" tag they are the batch's tags in order, unchanged in length.
C14_HostTag ==
    ev.op = "encode" =>
        LET b == ev.batch
            w == ev.stats
            n == Len(b.tags)
        IN /\ Len(w.tag_names) = Len(w.tag_values)
           /\ Cardinality({i \in 1..Len(w.tag_names) : w.tag_names[i] = "host"}) = 1
           /\ \A i \in 1..n :
                 w.tag_names[i] = b.tags[i][1] /\ w.tag_values[i] = b.tags[i][2]
           /\ IF \E i \in 1..n : b.tags[i][1] = "host"
              THEN Len(w.tag_names) = n
              ELSE /\ Len(w.tag_names) = n + 1
                   /\ w.tag_names[n + 1] = "host"
                   /\ w.tag_values[n + 1] = b.hostname

\* the record of a batch with a tag but no "host" tag has just been built,
\* after the collector's hostname was changed
C14_Witness ==
    /\ ev.op = "encode"
    /\ Len(ev.batch.tags) >= 1
    /\ Len(ev.stats.tag_names) = Len(ev.batch.tags) + 1
    /\ ev.batch.hostname # hostname

\* the tags of a module identity: of the tags with the same key, the first
FirstOfKey(opts) ==
    LET first == {i \in 1..Len(opts) :
                     /\ opts[i].kind = "Tag"
                     /\ \A j \in 1..(i - 1) :
                           ~(opts[j].kind = "Tag" /\ opts[j].k = opts[i].k)}
        nth(n) == CHOOSE i \in first : Cardinality({j \in first : j <= i}) = n
    IN [n \in 1..Cardinality(first) |-> <<opts[nth(n)].k, opts[nth(n)].v>>]

Given(s, ms) ==
    \E k \in 1..Len(ms) : s.module = ms[k].name /\ s.tags = FirstOfKey(ms[k].tags)

\* C15: deregister_countables removes exactly the entries whose module and
\* tags are those of one of the given identities (tags deduplicated by key)
\* and leaves the other entries as they were, in their order; afterwards no
\* entry with a given identity is in the registry.
C15_DeregisterExact ==
    [][ ev'.op = "deregister" =>
          /\ sources' = SelectSeq(sources, LAMBDA s : ~Given(s, ev'.ms))
          /\ \A i \in 1..Len(sources') : ~Given(sources'[i], ev'.ms)
      ]_vars

\* an entry has just been deregistered by an identity that repeats a tag
\* key, while an entry sampled before stays in the registry with its
\* countdown
C15_Witness ==
    /\ ev.op = "deregister"
    /\ \E k \in 1..Len(ev.ms) : Len(ev.ms[k].tags) # Len(FirstOfKey(ev.ms[k].tags))
    /\ \E i \in 1..Len(sources) : sources[i].skip = 1

\* C16: a live scheduling thread that finds itself with the running flag
\* cleared eventually exits its loop, unless start() sets the flag again.
C16_StopTerminates ==
    \A t \in Tids :
        (~running /\ t \in LiveThreads) ~> (running \/ threads[t].pc = "exit")

\* notify_stop() has returned the handle of a thread that has sampled, and
\* that thread has left its wait on the timeout and exited
C16_Witness ==
    /\ ev.op = "wake_exit"
    /\ ev.cause = "timeout"
    /\ ~running
    /\ stopping = 0
    /\ stat[0].ticks >= 1
    /\ threads[ev.t].pc = "exit"

\* C17: a wake that finds the running flag set starts a tick if and only if
\* the corrected time and the time of the thread's previous tick (0 before
\* its first) lie in different windows of the minimum interval; with the
\* minimum interval constant and the corrected time never set back, a tick
\* lies in a later window than the previous one; a wake that starts no tick
\* leaves the registry, the countdowns, the queue and the tick time as they
\* were.
C17_EligibleWake ==
    [][ ev'.op \in {"wake_tick", "wake_skip"} =>
          LET t == ev'.t
              now == clock + ntp_diff
              m == min_interval
              last == threads[t].last_run
          IN /\ (ev'.op = "wake_tick") <=> (now \div m # last \div m)
             /\ ev'.op = "wake_tick" =>
                   /\ threads'[t].pc = "hooks"
                   /\ threads'[t].last_run = now
                   /\ (stat[0].fixed /\ stat[0].mono) => now \div m > last \div m
             /\ ev'.op = "wake_skip" =>
                   /\ threads'[t].pc = "top"
                   /\ threads'[t].last_run = last
                   /\ UNCHANGED <<sources, queue, stat, pre_hooks>>
      ]_vars

\* a wake in the window of the previous tick has just started no tick,
\* the minimum interval being two tick cadences
C17_Witness ==
    /\ ev.op = "wake_skip"
    /\ stat[0].ticks >= 1
    /\ min_interval = 2
    /\ stat[0].fixed /\ stat[0].mono
    /\ threads[ev.t].last_run \div 2 = (clock + ntp_diff) \div 2

\* C18: the source a registration appends has an interval that is a
\* multiple of the tick cadence and at least the minimum interval the
\* registration loaded first; with an override below that minimum its
\* interval is that minimum and its countdown 0.
C18_IntervalAtLeastMin ==
    [][ ev'.op = "register" =>
          LET s == sources'[Len(sources')]
              opts == reg.m.options
          IN /\ s.interval % TICK_CYCLE = 0
             /\ as_secs(s.interval) >= reg.min
             /\ (\A i \in 1..Len(opts) :
                    opts[i].kind = "Interval" /\ as_secs(opts[i].d) < reg.min) =>
                   (s.interval = from_secs(reg.min) /\ s.skip = 0)
      ]_vars

\* the registry entry of Countable c
EntryOf(srcs, c) == srcs[CHOOSE i \in 1..Len(srcs) : srcs[i].countable.id = c]

\* C19 as stated: set_min_interval leaves the registry as it is, and a
\* source keeps the cadence computed at its registration (here already for
\* the source registered at construction, without an override: sampled on
\* every eligible tick, its countdown 1 after every sampling).
C19_CadenceKept ==
    [][ /\ ev'.op = "set_min_interval" => UNCHANGED sources
        /\ ev'.op = "sample" =>
              (0 \in PulledCids(ev') => EntryOf(sources', 0).skip = 1)
      ]_vars

\* C19 as amended: set_min_interval changes the stored minimum interval
\* alone; a tick leaves every interval as it is, counts the countdown of a
\* source it does not sample down by one, and resets the countdown of a
\* source it samples to max(interval, m) / m, m being the minimum interval
\* the tick loaded.
C19_CadenceFollowsMin ==
    [][ /\ ev'.op = "set_min_interval" =>
              UNCHANGED <<sources, pre_hooks, hostname, threads, queue, running>>
        /\ ev'.op = "sample" =>
              \A i \in 1..Len(sources') :
                  LET s == sources'[i]
                      old == EntryOf(sources, s.countable.id)
                      m == threads[ev'.t].min
                  IN /\ s.interval = old.interval
                     /\ IF s.countable.id \in PulledCids(ev')
                        THEN s.skip = Max(as_secs(s.interval), m) \div m
                        ELSE s.skip = old.skip - 1
      ]_vars

\* the source registered at construction with the minimum interval of 2 s
\* has just been sampled after set_min_interval(1 s): its countdown is 2
C19_Witness ==
    /\ ev.op = "sample"
    /\ 0 \in PulledCids(ev)
    /\ ~stat[0].fixed
    /\ min_interval = 1
    /\ EntryOf(sources, 0).skip = 2

\* C20: while the running flag is cleared no tick starts, no hook is
\* invoked, and the registry, the countdowns, the queue and the samplings
\* stay as they are; no scheduling thread is inside a tick when
\* notify_stop() clears the flag or has cleared it.
C20_QuietAfterStop ==
    [][ /\ ~running =>
              /\ ev'.op \notin {"wake_tick", "hooks", "sample"}
              /\ UNCHANGED <<sources, queue, stat>>
        /\ (ev'.op = "stop" \/ ~running') =>
              \A t \in Tids : /\ threads[t].pc \notin {"hooks", "sample"}
                              /\ threads'[t].pc \notin {"hooks", "sample"}
      ]_vars

\* notify_stop() has just returned the handle of a thread that has sampled
\* and is still in its timed wait
C20_Witness ==
    /\ ev.op = "stop_return"
    /\ ev.handle # 0
    /\ ~running
    /\ threads[ev.handle].pc = "wait"
    /\ stat[0].ticks >= 1

====
